---- MODULE Spec2Model ----
(***************************************************************************)
(* Model of backend/python-mem0: the Mem0Service wrapper                   *)
(* (src/mem0_service.py) around the mem0 Memory library.                   *)
(*                                                                         *)
(* The library is the environment: every library call either raises with   *)
(* a message or returns a value, chosen nondeterministically per call.     *)
(* One action per public method of Mem0Service; an action is the whole     *)
(* method, lazy initialisation and nested method calls included.           *)
(*                                                                         *)
(* Python values are encoded with strings at the leaves:                   *)
(*   Absent  a key that the mapping does not have                          *)
(*   None    the Python value None                                         *)
(* A library record (element of a response) is                             *)
(*   [kind, id, memory, metadata, score]                                   *)
(* kind "dict" is a mapping, "str" a plain string (its text in memory),    *)
(* "other" a value that is neither.  metadata is Absent, None, "{}" (a     *)
(* mapping without session_id) or s, standing for {"session_id": s}.       *)
(***************************************************************************)
EXTENDS Integers, Sequences, FiniteSets, TLC

\* ---------------------------------------------------------------- bounds
MaxLen == 2
MaxMsgs == 2
\* memory.add calls that reach the store in one behaviour.
MaxAdds == 2

\* ------------------------------------------------------- program constants
DefaultSearchLimit == 10
DefaultSessionLimit == 100
DefaultUserLimit == 1000
DefaultMaxMessages == 50

\* ------------------------------------------------------------ value space
Absent == "<absent>"
None == "None"

ErrMsgs == {"boom", "down"}
NoneLenError == "object of type 'NoneType' has no len()"
NoneGetError == "'NoneType' object has no attribute 'get'"

Sessions == {"s1", "s2"}
UserIds == {0, 1}
NoUser == [given |-> FALSE, v |-> 0]
UserArgs == {NoUser} \cup {[given |-> TRUE, v |-> n] : n \in UserIds}

SeqsUpTo(S, n) == UNION {[1..k -> S] : k \in 0..n}

\* Python: msg.get(key, default) on a mapping whose missing keys read Absent.
Get(d, key, default) == IF d[key] = Absent THEN default ELSE d[key]

\* Python truthiness of an Optional[int]: None and 0 are false.
Truthy(user_id) == user_id.given /\ user_id.v # 0

\* str(user_id) if user_id else "default"
UserKey(user_id) == IF Truthy(user_id) THEN ToString(user_id.v) ELSE "default"

\* ------------------------------------------------------------- messages
Messages ==
    [type : {Absent, "user", "assistant", "system"}, content : {Absent, "hi"}]

\* The role test turned round: "assistant" only for the tag "assistant".
Role_UserByDefault(msg) ==
    IF Get(msg, "type", None) = "assistant" THEN "assistant" ELSE "user"

\* role = "user" if msg.get("type") == "user" else "assistant"
Role(msg) == IF Get(msg, "type", None) = "user" THEN "user" ELSE "assistant"

ConvertMessage(msg) == [role |-> Role(msg), content |-> Get(msg, "content", "")]

ConvertMessages(messages) ==
    [i \in 1..Len(messages) |-> ConvertMessage(messages[i])]

\* -------------------------------------------------------- library records
Rec(kind, id, memory, metadata, score) ==
    [kind |-> kind, id |-> id, memory |-> memory, metadata |-> metadata,
     score |-> score]

StrElem(text) == Rec("str", Absent, text, Absent, Absent)
OtherElem == Rec("other", Absent, Absent, Absent, Absent)

\* What memory.get_all may hold: mappings with or without id and metadata,
\* plain strings, and values that are neither.
GetAllElems ==
    {Rec("dict", id, "t", md, Absent) :
        id \in {Absent, "m1", "m2"}, md \in {Absent, None, "s1", "s2"}}
    \cup {StrElem("x"), OtherElem}

\* What memory.search may hold.
SearchElems ==
    {Rec("dict", id, mem, Absent, sc) :
        id \in {Absent, "m1"}, mem \in {Absent, "", "t"}, sc \in {Absent, "0.9"}}
    \cup {StrElem("x"), OtherElem}

\* A library response: a mapping holding items under `key` (None when null
\* is TRUE, no such key when key = Absent), a raw list of items, or a value
\* of another type.
Resp(type, key, null, items) ==
    [type |-> type, key |-> key, null |-> null, items |-> items]

Responses(Elems) ==
    {Resp("list", Absent, FALSE, s) : s \in SeqsUpTo(Elems, MaxLen)}
    \cup {Resp("dict", k, FALSE, s) :
            k \in {"results", "memories"}, s \in SeqsUpTo(Elems, MaxLen)}
    \cup {Resp("dict", "results", TRUE, <<>>),
          Resp("dict", Absent, FALSE, <<>>),
          Resp("other", Absent, FALSE, <<>>)}

EmptyResp == Resp("list", Absent, FALSE, <<>>)

\* A library call's behaviour: raise with msg, or return value.
Returns(v) == [raises |-> FALSE, msg |-> Absent, value |-> v]
Raises(m) == [raises |-> TRUE, msg |-> m, value |-> EmptyResp]
Behaviours(Values) ==
    {Returns(v) : v \in Values} \cup {Raises(m) : m \in ErrMsgs}

NoCall == Returns(EmptyResp)

\* ------------------------------------------------------- library call log
Call(fn, user_id, limit, filters, messages, metadata, memory_id, query) ==
    [fn |-> fn, user_id |-> user_id, limit |-> limit, filters |-> filters,
     messages |-> messages, metadata |-> metadata, memory_id |-> memory_id,
     query |-> query]

NoMetadata == [session_id |-> Absent, user_id |-> Absent]

FromConfigCall == Call("from_config", Absent, 0, Absent, <<>>, NoMetadata, Absent, Absent)
AddCall(msgs, user_key, metadata) ==
    Call("add", user_key, 0, Absent, msgs, metadata, Absent, Absent)
SearchCall(query, user_key, limit, filters) ==
    Call("search", user_key, limit, filters, <<>>, NoMetadata, Absent, query)
GetAllCall(user_key, limit) ==
    Call("get_all", user_key, limit, Absent, <<>>, NoMetadata, Absent, Absent)
DeleteCall(memory_id) ==
    Call("delete", Absent, 0, Absent, <<>>, NoMetadata, memory_id, Absent)

\* ---------------------------------------------------------------- outcomes
Outcome(raised, exc, type, keys, success, error, results, deleted_count, context) ==
    [raised |-> raised, exc |-> exc, type |-> type, keys |-> keys,
     success |-> success, error |-> error, results |-> results,
     deleted_count |-> deleted_count, context |-> context]

NoOutcome == Outcome(FALSE, Absent, "none", {}, FALSE, Absent, <<>>, 0, <<>>)
Propagated(e) == Outcome(TRUE, e, "none", {}, FALSE, Absent, <<>>, 0, <<>>)
ReturnedNone == NoOutcome
ReturnedList(items) == Outcome(FALSE, Absent, "list", {}, FALSE, Absent, items, 0, <<>>)
ReturnedContext(entries) ==
    Outcome(FALSE, Absent, "list", {}, FALSE, Absent, <<>>, 0, entries)
ResultsOk(results) ==
    Outcome(FALSE, Absent, "dict", {"success", "results"}, TRUE, Absent, results, 0, <<>>)
ResultsFailed(e) ==
    Outcome(FALSE, Absent, "dict", {"success", "error", "results"}, FALSE, e, <<>>, 0, <<>>)
DeletedOk(n) ==
    Outcome(FALSE, Absent, "dict", {"success", "deleted_count"}, TRUE, Absent, <<>>, n, <<>>)
DeletedFailed(e) ==
    Outcome(FALSE, Absent, "dict", {"success", "error", "deleted_count"}, FALSE, e, <<>>, 0, <<>>)

\* ------------------------------------------------------- the service object
Service(initialized, memory, constructed) ==
    [initialized |-> initialized, memory |-> memory, constructed |-> constructed]

\* Mem0Service.__init__
NewService == Service(FALSE, None, 0)

\* The result of running a method: the service afterwards, the library calls
\* it issued in order, and what the caller gets.
Ran(svc, calls, outcome) == [svc |-> svc, calls |-> calls, outcome |-> outcome]

\* initialize without its "if self.initialized: return".
initialize_NoGuard(svc, init) ==
    IF init.raises
    THEN Ran(svc, <<FromConfigCall>>, Propagated(init.msg))
    ELSE Ran(Service(TRUE, "Memory", svc.constructed + 1),
             <<FromConfigCall>>, ReturnedNone)

\* initialize whose except branch logs and does not re-raise.
initialize_Swallow(svc, init) ==
    IF svc.initialized
    THEN Ran(svc, <<>>, ReturnedNone)
    ELSE IF init.raises
         THEN Ran(svc, <<FromConfigCall>>, ReturnedNone)
         ELSE Ran(Service(TRUE, "Memory", svc.constructed + 1),
                  <<FromConfigCall>>, ReturnedNone)

\* Mem0Service.initialize; init is the behaviour of Memory.from_config.
initialize(svc, init) ==
    IF svc.initialized
    THEN Ran(svc, <<>>, ReturnedNone)
    ELSE IF init.raises
         THEN Ran(svc, <<FromConfigCall>>, Propagated(init.msg))
         ELSE Ran(Service(TRUE, "Memory", svc.constructed + 1),
                  <<FromConfigCall>>, ReturnedNone)

\* if not self.initialized: self.initialize()
EnsureInitialized(svc, init) ==
    IF ~svc.initialized THEN initialize(svc, init) ELSE Ran(svc, <<>>, ReturnedNone)

\* add_messages without its try/except around memory.add.
add_messages_NoCatch(svc, messages, session_id, user_id, init, add) ==
    LET i == EnsureInitialized(svc, init)
        metadata == [session_id |-> session_id, user_id |-> UserKey(user_id)]
        call == AddCall(ConvertMessages(messages), UserKey(user_id), metadata)
    IN  IF i.outcome.raised THEN i
        ELSE IF add.raises
             THEN Ran(i.svc, i.calls \o <<call>>, Propagated(add.msg))
             ELSE Ran(i.svc, i.calls \o <<call>>, ResultsOk(add.value.items))

\* Mem0Service.add_messages
add_messages(svc, messages, session_id, user_id, init, add) ==
    LET i == EnsureInitialized(svc, init)
        metadata == [session_id |-> session_id, user_id |-> UserKey(user_id)]
        call == AddCall(ConvertMessages(messages), UserKey(user_id), metadata)
    IN  IF i.outcome.raised THEN i
        ELSE IF add.raises
             THEN Ran(i.svc, i.calls \o <<call>>, ResultsFailed(add.msg))
             ELSE Ran(i.svc, i.calls \o <<call>>, ResultsOk(add.value.items))


\* ------------------------------------------------ response normalisation
Ok(v) == [ok |-> TRUE, err |-> Absent, val |-> v]
Err(e) == [ok |-> FALSE, err |-> e, val |-> <<>>]

\* ------------------------------------------------- configuration (config.py)
\* The process environment: a variable that is not set reads Absent;
\* neo4j_installed tells whether "import langchain_neo4j" succeeds.
Environments ==
    [MEM0_MODELS : {Absent, "", "openai", "OpenAI", "azure", "AZURE", "gemini"},
     OPENAI_API_KEY : {Absent, "", "sk-openai"},
     AZURE_OPENAI_API_KEY : {Absent, "", "sk-azure"},
     MEM0_GRAPH_ENABLED : {Absent, "true", "True", "false"},
     MEM0_PROVIDER : {Absent, "chroma"},
     neo4j_installed : BOOLEAN]

\* The environment the tests set before importing the service.
TestEnv ==
    [MEM0_MODELS |-> "openai", OPENAI_API_KEY |-> "sk-openai",
     AZURE_OPENAI_API_KEY |-> Absent, MEM0_GRAPH_ENABLED |-> Absent,
     MEM0_PROVIDER |-> Absent, neo4j_installed |-> FALSE]

\* str.lower() on the strings of the model.
Lower(str) ==
    CASE str = "OpenAI" -> "openai"
      [] str = "AZURE" -> "azure"
      [] str = "True" -> "true"
      [] OTHER -> str

\* os.getenv(name) is None for a variable that is not set.
Getenv(env, name) == IF env[name] = Absent THEN None ELSE env[name]

\* os.getenv(name, default)
GetenvOr(env, name, default) == Get(env, name, default)

\* Python truthiness of an Optional[str] read from the environment.
NotEmpty(value) == value # None /\ value # ""

\* Config._detect_provider
DetectProvider(env) ==
    LET provider == Lower(GetenvOr(env, "MEM0_MODELS", ""))
    IN  IF provider \notin {"openai", "azure"}
        THEN Err("MEM0_MODELS must be 'openai' or 'azure', got: " \o provider)
        ELSE Ok(provider)

\* _get_api_key testing "is None" where the code tests "not api_key".
GetApiKey_NoneOnly(env, provider) ==
    LET name == IF provider = "azure" THEN "AZURE_OPENAI_API_KEY" ELSE "OPENAI_API_KEY"
        api_key == Getenv(env, name)
    IN  IF api_key = None THEN Err(name \o " is required") ELSE Ok(api_key)

\* Config._get_api_key
GetApiKey(env, provider) ==
    LET name == IF provider = "azure" THEN "AZURE_OPENAI_API_KEY" ELSE "OPENAI_API_KEY"
        api_key == Getenv(env, name)
    IN  IF ~NotEmpty(api_key)
        THEN Err(name \o " is required when MEM0_MODELS=" \o provider)
        ELSE Ok(api_key)

\* Lines 29-41 of Config.__init__: the flag, downgraded with a warning when
\* langchain_neo4j cannot be imported.
GraphEnabled(env) ==
    LET wanted == Lower(GetenvOr(env, "MEM0_GRAPH_ENABLED", "false")) = "true"
    IN  [enabled |-> wanted /\ env.neo4j_installed,
         warned |-> wanted /\ ~env.neo4j_installed]

Configuration(loaded, ok, error, provider, api_key, vector_store_provider, graph_enabled, warned, bundle) ==
    [loaded |-> loaded, ok |-> ok, error |-> error, provider |-> provider,
     api_key |-> api_key, vector_store_provider |-> vector_store_provider,
     graph_enabled |-> graph_enabled, warned |-> warned, bundle |-> bundle]

\* Before "config = Config()" has run.
NotLoaded == Configuration(FALSE, FALSE, Absent, Absent, Absent, Absent, FALSE, FALSE, {})

ConfigFailed(error) ==
    Configuration(TRUE, FALSE, error, Absent, Absent, Absent, FALSE, FALSE, {})

\* Config.__init__
Config(env) ==
    LET provider == DetectProvider(env)
        api_key == GetApiKey(env, provider.val)
        graph == GraphEnabled(env)
    IN  IF ~provider.ok THEN ConfigFailed(provider.err)
        ELSE IF ~api_key.ok THEN ConfigFailed(api_key.err)
        ELSE Configuration(TRUE, TRUE, Absent, provider.val, api_key.val,
                           GetenvOr(env, "MEM0_PROVIDER", "qdrant"),
                           graph.enabled, graph.warned, {})

\* Config.get_mem0_config: the sections of the bundle it returns.
GetMem0Config(cfg) ==
    {"version", "embedder", "llm"}
    \cup (IF cfg.vector_store_provider = "qdrant" THEN {"vector_store"} ELSE {})
    \cup (IF cfg.graph_enabled THEN {"enable_graph", "graph_store"} ELSE {})

\* search: results.get('results', []) for a mapping, the list itself for a
\* list, [] otherwise; len() of the extracted value is taken for the log.
SearchActual(resp) ==
    IF resp.type = "dict"
    THEN IF resp.key = "results"
         THEN IF resp.null THEN Err(NoneLenError) ELSE Ok(resp.items)
         ELSE Ok(<<>>)
    ELSE IF resp.type = "list" THEN Ok(resp.items) ELSE Ok(<<>>)

\* get_all: all_memories.get('results', all_memories.get('memories', []))
GetAllActual(resp) ==
    IF resp.type = "dict"
    THEN IF resp.key \in {"results", "memories"}
         THEN IF resp.null THEN Err(NoneLenError) ELSE Ok(resp.items)
         ELSE Ok(<<>>)
    ELSE IF resp.type = "list" THEN Ok(resp.items) ELSE Ok(<<>>)

\* search's loop appending a plain string as it is, unwrapped.
RECURSIVE NormalizeFrom_RawStrings(_, _)
NormalizeFrom_RawStrings(items, i) ==
    IF i > Len(items) THEN <<>>
    ELSE (IF items[i].kind \in {"dict", "str"} THEN <<items[i]>> ELSE <<>>)
         \o NormalizeFrom_RawStrings(items, i + 1)

\* search's loop with an else branch that appends whatever it is given.
RECURSIVE NormalizeFrom_KeepsMalformed(_, _)
NormalizeFrom_KeepsMalformed(items, i) ==
    IF i > Len(items) THEN <<>>
    ELSE LET r == items[i]
             out == IF r.kind = "str"
                    THEN <<Rec("dict", ToString(i - 1), r.memory, Absent, "1.0")>>
                    ELSE <<r>>
         IN  out \o NormalizeFrom_KeepsMalformed(items, i + 1)

\* search's loop: enumerate(actual_results), idx counts every element.
RECURSIVE NormalizeFrom(_, _)
NormalizeFrom(items, i) ==
    IF i > Len(items) THEN <<>>
    ELSE LET r == items[i]
             out == IF r.kind = "dict" THEN <<r>>
                    ELSE IF r.kind = "str"
                         THEN <<Rec("dict", ToString(i - 1), r.memory, Absent, "1.0")>>
                         ELSE <<>>
         IN  out \o NormalizeFrom(items, i + 1)

NormalizeSearch(items) == NormalizeFrom(items, 1)

\* get_all_user_memories' loop: a string's id is len(formatted_memories).
RECURSIVE FormatFrom(_, _, _)
FormatFrom(items, i, acc) ==
    IF i > Len(items) THEN acc
    ELSE LET r == items[i]
         IN  IF r.kind = "dict" THEN FormatFrom(items, i + 1, Append(acc, r))
             ELSE IF r.kind = "str"
                  THEN FormatFrom(items, i + 1,
                           Append(acc, Rec("dict", ToString(Len(acc)), r.memory, "{}", Absent)))
                  ELSE FormatFrom(items, i + 1, acc)

FormatAll(items) == FormatFrom(items, 1, <<>>)

\* mem.get("metadata", {}).get("session_id"): None when there is no metadata
\* or no session_id in it; a null metadata value has no .get.
MetaSessionId(mem) ==
    IF mem.metadata = None THEN Err(NoneGetError)
    ELSE IF mem.metadata \in {Absent, "{}"} THEN Ok(None)
         ELSE Ok(mem.metadata)

\* get_session_memories' loop, as what it leaves in session_memories: the
\* first mapping whose metadata has no .get ends it with that error;
\* otherwise the mappings of this session and the plain strings stay, in
\* order, a string becoming a record whose id is the length of the list when
\* it was appended.
FilterSession(items, session_id) ==
    LET Fails(r) == r.kind = "dict" /\ ~MetaSessionId(r).ok
        Keeps(r) ==
            \/ r.kind = "str"
            \/ r.kind = "dict" /\ MetaSessionId(r).ok /\ MetaSessionId(r).val = session_id
        failed == SelectSeq(items, Fails)
        kept == SelectSeq(items, Keeps)
    IN  IF failed # <<>> THEN Err(MetaSessionId(failed[1]).err)
        ELSE Ok([k \in 1..Len(kept) |->
                    IF kept[k].kind = "str"
                    THEN Rec("dict", ToString(k - 1), kept[k].memory, session_id, Absent)
                    ELSE kept[k]])

\* ---------------------------------------------------------- the methods
\* Python truthiness of an Optional[str]: None and "" are false.
TruthyStr(s) == s # None /\ s # Absent /\ s # ""

\* Mem0Service.search
search(svc, query, session_id, user_id, limit, init, srch) ==
    LET i == EnsureInitialized(svc, init)
        filters == IF TruthyStr(session_id) THEN session_id ELSE Absent
        call == SearchCall(query, UserKey(user_id), limit, filters)
        actual == SearchActual(srch.value)
    IN  IF i.outcome.raised THEN i
        ELSE IF srch.raises
             THEN Ran(i.svc, i.calls \o <<call>>, ResultsFailed(srch.msg))
             ELSE IF ~actual.ok
                  THEN Ran(i.svc, i.calls \o <<call>>, ResultsFailed(actual.err))
                  ELSE Ran(i.svc, i.calls \o <<call>>,
                           ResultsOk(NormalizeSearch(actual.val)))

\* Mem0Service.get_all_user_memories
get_all_user_memories(svc, user_id, limit, init, get_all) ==
    LET i == EnsureInitialized(svc, init)
        call == GetAllCall(UserKey(user_id), limit)
        actual == GetAllActual(get_all.value)
    IN  IF i.outcome.raised THEN i
        ELSE IF get_all.raises \/ ~actual.ok
             THEN Ran(i.svc, i.calls \o <<call>>, ReturnedList(<<>>))
             ELSE Ran(i.svc, i.calls \o <<call>>, ReturnedList(FormatAll(actual.val)))

\* Mem0Service.get_session_memories
get_session_memories(svc, session_id, user_id, limit, init, get_all) ==
    LET i == EnsureInitialized(svc, init)
        call == GetAllCall(UserKey(user_id), limit)
        actual == GetAllActual(get_all.value)
        kept == FilterSession(actual.val, session_id)
    IN  IF i.outcome.raised THEN i
        ELSE IF get_all.raises \/ ~actual.ok \/ ~kept.ok
             THEN Ran(i.svc, i.calls \o <<call>>, ReturnedList(<<>>))
             ELSE Ran(i.svc, i.calls \o <<call>>, ReturnedList(kept.val))

\* The identifiers delete_session_memories' loop passes to memory.delete:
\* those of the records whose memory.get("id") is truthy.
DeletableIds(memories) ==
    LET HasId(memory) == TruthyStr(memory.id)
        with_id == SelectSeq(memories, HasId)
    IN  [k \in 1..Len(with_id) |-> with_id[k].id]

\* Mem0Service.delete_session_memories; the delete_at-th memory.delete call
\* raises delete_msg (delete_at = 0: none raises).
delete_session_memories(svc, session_id, user_id, init, get_all, delete_at, delete_msg) ==
    LET i == EnsureInitialized(svc, init)
        g == get_session_memories(i.svc, session_id, user_id, DefaultSessionLimit,
                                  init, get_all)
        ids == DeletableIds(g.outcome.results)
        fails == delete_at \in 1..Len(ids)
        issued == IF fails THEN SubSeq(ids, 1, delete_at) ELSE ids
        deletes == [k \in 1..Len(issued) |-> DeleteCall(issued[k])]
    IN  IF i.outcome.raised THEN i
        ELSE IF fails
             THEN Ran(g.svc, i.calls \o g.calls \o deletes, DeletedFailed(delete_msg))
             ELSE Ran(g.svc, i.calls \o g.calls \o deletes, DeletedOk(Len(ids)))

ContextEntry(text) ==
    [role |-> "system", content |-> "[Relevant Context: " \o text \o "]"]

\* get_context_for_query's loop: result.get("memory", "") that is truthy.
RECURSIVE ContextFrom(_, _)
ContextFrom(results, i) ==
    IF i > Len(results) THEN <<>>
    ELSE (IF TruthyStr(Get(results[i], "memory", ""))
          THEN <<ContextEntry(results[i].memory)>> ELSE <<>>)
         \o ContextFrom(results, i + 1)

\* get_context_for_query handing its session_id on to search.
get_context_for_query_InSession(svc, query, session_id, user_id, max_messages, init, srch) ==
    LET i == EnsureInitialized(svc, init)
        s == search(i.svc, query, session_id, user_id, max_messages, init, srch)
    IN  IF i.outcome.raised THEN i
        ELSE Ran(s.svc, i.calls \o s.calls, ReturnedContext(ContextFrom(s.outcome.results, 1)))

\* Mem0Service.get_context_for_query
get_context_for_query(svc, query, session_id, user_id, max_messages, init, srch) ==
    LET i == EnsureInitialized(svc, init)
        s == search(i.svc, query, None, user_id, max_messages, init, srch)
    IN  IF i.outcome.raised THEN i
        ELSE Ran(s.svc, i.calls \o s.calls, ReturnedContext(ContextFrom(s.outcome.results, 1)))

\* ------------------------------------------------------------------ state
VARIABLES
    service,   \* the Mem0Service object: initialized, memory, constructed
    pc,        \* "idle": no call in progress; "returned": a method returned
    request,   \* the last method called and its arguments
    lib,       \* how the library behaved during that method
    calls,     \* the library calls that method issued, in order
    outcome,   \* what the method returned or raised
    response,  \* the HTTP response of the last route (main.py)
    app,       \* the FastAPI application: whether its startup hook has run
    env,       \* the process environment config.py reads
    config,    \* the module-level Config object of config.py
    store      \* the records a faithful library store holds, per user key

vars == <<service, pc, request, lib, calls, outcome, response, app, env, config, store>>

\* An HTTP response: delegated tells whether the route called the memory
\* service; health and initialized are the fields of /health's body.
Response(status, detail, delegated, health, initialized) ==
    [status |-> status, detail |-> detail, delegated |-> delegated,
     health |-> health, initialized |-> initialized]

NoResponse == Response(0, Absent, FALSE, Absent, FALSE)

\* The application: whether startup_event has run, and whether the installed
\* Starlette gives HTTPException a __str__ ("500: detail") or leaves
\* Exception's, which is "" for an exception built from keyword arguments.
App(started, str_shows_detail) ==
    [started |-> started, str_shows_detail |-> str_shows_detail]

NotStarted == App(FALSE, TRUE)

UserKeys == {"default"} \cup {ToString(n) : n \in UserIds \ {0}}
EmptyStore == [k \in UserKeys |-> <<>>]
NoStore == [next_id |-> 1, adds |-> 0, records |-> EmptyStore]

\* ready: self.initialized as the method found it.
Request(op, messages, session_id, user_id, query, limit) ==
    [op |-> op, ready |-> service.initialized, messages |-> messages,
     session_id |-> session_id, user_id |-> user_id, query |-> query,
     limit |-> limit]

NoRequest ==
    [op |-> "none", ready |-> FALSE, messages |-> <<>>, session_id |-> Absent,
     user_id |-> NoUser, query |-> Absent, limit |-> 0]

Lib(init, add, srch, get_all, delete_at, delete_msg) ==
    [init |-> init, add |-> add, search |-> srch, get_all |-> get_all,
     delete_at |-> delete_at, delete_msg |-> delete_msg]

NoLib == Lib(NoCall, NoCall, NoCall, NoCall, 0, Absent)

InitBehaviours == Behaviours({EmptyResp})

\* from_config is consulted only by a service that is not initialized.
InitChoices == IF service.initialized THEN {NoCall} ELSE InitBehaviours

Finish(req, l, ran) ==
    /\ service' = ran.svc
    /\ pc' = "returned"
    /\ request' = req
    /\ lib' = l
    /\ calls' = ran.calls
    /\ outcome' = ran.outcome
    /\ UNCHANGED <<response, app, env, config, store>>

\* The state once the modules are imported: config = Config() succeeded
\* under the environment, mem0_service = Mem0Service() is constructed.
Imported(e) ==
    /\ service = NewService
    /\ pc = "idle"
    /\ request = NoRequest
    /\ lib = NoLib
    /\ calls = <<>>
    /\ outcome = NoOutcome
    /\ response = NoResponse
    /\ app = NotStarted
    /\ env = e
    /\ config = Config(e)
    /\ store = NoStore

Init == Imported(TestEnv)

\* initialize() called directly (the startup hook, the tests).
Initialize ==
    /\ pc = "idle"
    /\ \E init \in InitChoices :
          Finish(Request("initialize", <<>>, Absent, NoUser, Absent, 0),
                 Lib(init, NoCall, NoCall, NoCall, 0, Absent),
                 initialize(service, init))

AddReturns == {Resp("list", Absent, FALSE, <<Rec("dict", "m1", "t", Absent, Absent)>>)}

AddMessages ==
    /\ pc = "idle"
    /\ \E messages \in SeqsUpTo(Messages, MaxMsgs), session_id \in Sessions,
          user_id \in UserArgs, init \in InitChoices, add \in Behaviours(AddReturns) :
          Finish(Request("add_messages", messages, session_id, user_id, Absent, 0),
                 Lib(init, add, NoCall, NoCall, 0, Absent),
                 add_messages(service, messages, session_id, user_id, init, add))

Queries == {"q"}
SearchLimits == {DefaultSearchLimit, DefaultMaxMessages}
SessionLimits == {DefaultSessionLimit}
UserLimits == {DefaultUserLimit, DefaultSessionLimit}
SessionArgs == {None, ""} \cup Sessions

Search ==
    /\ pc = "idle"
    /\ \E query \in Queries, session_id \in SessionArgs, user_id \in UserArgs,
          limit \in SearchLimits, init \in InitChoices,
          srch \in Behaviours(Responses(SearchElems)) :
          Finish(Request("search", <<>>, session_id, user_id, query, limit),
                 Lib(init, NoCall, srch, NoCall, 0, Absent),
                 search(service, query, session_id, user_id, limit, init, srch))

GetAllUserMemories ==
    /\ pc = "idle"
    /\ \E user_id \in UserArgs, limit \in UserLimits, init \in InitChoices,
          get_all \in Behaviours(Responses(GetAllElems)) :
          Finish(Request("get_all_user_memories", <<>>, Absent, user_id, Absent, limit),
                 Lib(init, NoCall, NoCall, get_all, 0, Absent),
                 get_all_user_memories(service, user_id, limit, init, get_all))

GetSessionMemories ==
    /\ pc = "idle"
    /\ \E session_id \in Sessions, user_id \in UserArgs, limit \in SessionLimits,
          init \in InitChoices, get_all \in Behaviours(Responses(GetAllElems)) :
          Finish(Request("get_session_memories", <<>>, session_id, user_id, Absent, limit),
                 Lib(init, NoCall, NoCall, get_all, 0, Absent),
                 get_session_memories(service, session_id, user_id, limit, init, get_all))

DeleteFailures == {[at |-> 0, msg |-> Absent]}
                  \cup {[at |-> k, msg |-> m] : k \in 1..MaxLen, m \in ErrMsgs}

DeleteSessionMemories ==
    /\ pc = "idle"
    /\ \E session_id \in Sessions, user_id \in UserArgs, init \in InitChoices,
          get_all \in Behaviours(Responses(GetAllElems)), del \in DeleteFailures :
          Finish(Request("delete_session_memories", <<>>, session_id, user_id, Absent, 0),
                 Lib(init, NoCall, NoCall, get_all, del.at, del.msg),
                 delete_session_memories(service, session_id, user_id, init, get_all,
                                         del.at, del.msg))

MaxMessagesArgs == {DefaultMaxMessages, DefaultSearchLimit}

GetContextForQuery ==
    /\ pc = "idle"
    /\ \E query \in Queries, session_id \in Sessions, user_id \in UserArgs,
          max_messages \in MaxMessagesArgs, init \in InitChoices,
          srch \in Behaviours(Responses(SearchElems)) :
          Finish(Request("get_context_for_query", <<>>, session_id, user_id, query,
                         max_messages),
                 Lib(init, NoCall, srch, NoCall, 0, Absent),
                 get_context_for_query(service, query, session_id, user_id,
                                       max_messages, init, srch))


\* The caller takes the result; the next call starts from the service alone.
Return ==
    /\ pc = "returned"
    /\ pc' = "idle"
    /\ request' = NoRequest
    /\ lib' = NoLib
    /\ calls' = <<>>
    /\ outcome' = NoOutcome
    /\ response' = NoResponse
    /\ UNCHANGED <<service, app, env, config, store>>

Next ==
    \/ Initialize
    \/ AddMessages
    \/ Search
    \/ GetAllUserMemories
    \/ GetSessionMemories
    \/ DeleteSessionMemories
    \/ GetContextForQuery
    \/ Return

Spec == Init /\ [][Next]_vars

\* ------------------------------------------------- HTTP layer (main.py)
Served(ran, resp) == [ran |-> ran, response |-> resp]

Unavailable == Response(503, "Service not initialized", FALSE, Absent, FALSE)
Answered == Response(200, Absent, TRUE, Absent, FALSE)
InternalError(detail) == Response(500, detail, TRUE, Absent, FALSE)

\* raise HTTPException(status_code=503, ...) ahead of any call
NotReady(svc) == Served(Ran(svc, <<>>, NoOutcome), Unavailable)

\* str(e) of an HTTPException
StrHTTPException(a, status, detail) ==
    IF a.str_shows_detail THEN ToString(status) \o ": " \o detail ELSE ""

\* The try block of /add, /search and /delete-session-memories: a failure
\* outcome raises HTTPException(500, error) inside the try, and the
\* "except Exception as e" around it answers HTTPException(500, str(e)).
OutcomeResponse(a, ran) ==
    IF ran.outcome.raised THEN InternalError(ran.outcome.exc)
    ELSE IF ~ran.outcome.success
         THEN InternalError(
                 StrHTTPException(a, 500, Get(ran.outcome, "error", "Unknown error")))
         ELSE Answered

\* The try block of /get-session-memories and /get-context.
ListResponse(ran) ==
    IF ran.outcome.raised THEN InternalError(ran.outcome.exc) ELSE Answered

\* The try block of /get-all-user-memories: detail=f"500: {str(e)}"
UserListResponse(ran) ==
    IF ran.outcome.raised THEN InternalError("500: " \o ran.outcome.exc) ELSE Answered

\* /add without its readiness check.
add_route_Unchecked(a, svc, messages, session_id, user_id, init, add) ==
    LET ran == add_messages(svc, messages, session_id, user_id, init, add)
    IN  Served(ran, OutcomeResponse(a, ran))

\* POST /add
add_route(a, svc, messages, session_id, user_id, init, add) ==
    IF ~svc.initialized THEN NotReady(svc)
    ELSE LET ran == add_messages(svc, messages, session_id, user_id, init, add)
         IN  Served(ran, OutcomeResponse(a, ran))

\* POST /search
search_route(a, svc, query, session_id, user_id, limit, init, srch) ==
    IF ~svc.initialized THEN NotReady(svc)
    ELSE LET ran == search(svc, query, session_id, user_id, limit, init, srch)
         IN  Served(ran, OutcomeResponse(a, ran))

\* POST /get-session-memories
session_memories_route(svc, session_id, user_id, limit, init, get_all) ==
    IF ~svc.initialized THEN NotReady(svc)
    ELSE LET ran == get_session_memories(svc, session_id, user_id, limit, init, get_all)
         IN  Served(ran, ListResponse(ran))

\* POST /get-all-user-memories: the check is inside the try, and
\* "except HTTPException: raise" lets the 503 through.
user_memories_route(svc, user_id, limit, init, get_all) ==
    IF ~svc.initialized THEN NotReady(svc)
    ELSE LET ran == get_all_user_memories(svc, user_id, limit, init, get_all)
         IN  Served(ran, UserListResponse(ran))

\* POST /delete-session-memories
delete_route(a, svc, session_id, user_id, init, get_all, delete_at, delete_msg) ==
    IF ~svc.initialized THEN NotReady(svc)
    ELSE LET ran == delete_session_memories(svc, session_id, user_id, init, get_all,
                                            delete_at, delete_msg)
         IN  Served(ran, OutcomeResponse(a, ran))

\* POST /get-context
context_route(svc, query, session_id, user_id, max_messages, init, srch) ==
    IF ~svc.initialized THEN NotReady(svc)
    ELSE LET ran == get_context_for_query(svc, query, session_id, user_id,
                                          max_messages, init, srch)
         IN  Served(ran, ListResponse(ran))

\* startup_event letting the exception of initialize() out.
startup_event_Raising(svc, init) == initialize(svc, init)

\* startup_event: initialize() inside try/except that only logs.
startup_event(svc, init) ==
    LET ran == initialize(svc, init)
    IN  Ran(ran.svc, ran.calls, ReturnedNone)

\* GET /health
health_check(svc) ==
    Response(200, Absent, FALSE,
             IF svc.initialized THEN "healthy" ELSE "initializing",
             svc.initialized)

Serve(req, l, served) ==
    /\ service' = served.ran.svc
    /\ pc' = "returned"
    /\ request' = req
    /\ lib' = l
    /\ calls' = served.ran.calls
    /\ outcome' = served.ran.outcome
    /\ response' = served.response
    /\ UNCHANGED <<app, env, config, store>>

\* The application is imported; which Starlette is installed is a fact of
\* the build.
HttpInit ==
    /\ service = NewService
    /\ pc = "idle"
    /\ request = NoRequest
    /\ lib = NoLib
    /\ calls = <<>>
    /\ outcome = NoOutcome
    /\ response = NoResponse
    /\ app \in {App(FALSE, shows) : shows \in BOOLEAN}
    /\ env = TestEnv
    /\ config = Config(TestEnv)
    /\ store = NoStore

Startup ==
    /\ pc = "idle"
    /\ ~app.started
    /\ \E init \in InitChoices :
          /\ service' = startup_event(service, init).svc
          /\ pc' = "returned"
          /\ request' = Request("startup", <<>>, Absent, NoUser, Absent, 0)
          /\ lib' = Lib(init, NoCall, NoCall, NoCall, 0, Absent)
          /\ calls' = startup_event(service, init).calls
          /\ outcome' = startup_event(service, init).outcome
          /\ response' = NoResponse
          /\ app' = [app EXCEPT !.started = TRUE]
          /\ UNCHANGED <<env, config, store>>

Health ==
    /\ pc = "idle"
    /\ app.started
    /\ service' = service
    /\ pc' = "returned"
    /\ request' = Request("/health", <<>>, Absent, NoUser, Absent, 0)
    /\ lib' = NoLib
    /\ calls' = <<>>
    /\ outcome' = NoOutcome
    /\ response' = health_check(service)
    /\ UNCHANGED <<app, env, config, store>>

\* Request bodies as pydantic admits them: a Message has type and content.
HttpMessages == [type : {"user", "assistant", "system"}, content : {"hi"}]

AddRoute ==
    /\ pc = "idle"
    /\ app.started
    /\ \E messages \in SeqsUpTo(HttpMessages, MaxMsgs), session_id \in Sessions,
          user_id \in UserArgs, init \in InitChoices, add \in Behaviours(AddReturns) :
          Serve(Request("/add", messages, session_id, user_id, Absent, 0),
                Lib(init, add, NoCall, NoCall, 0, Absent),
                add_route(app, service, messages, session_id, user_id, init, add))

SearchRoute ==
    /\ pc = "idle"
    /\ app.started
    /\ \E query \in Queries, session_id \in {None} \cup Sessions, user_id \in UserArgs,
          limit \in SearchLimits, init \in InitChoices,
          srch \in Behaviours(Responses(SearchElems)) :
          Serve(Request("/search", <<>>, session_id, user_id, query, limit),
                Lib(init, NoCall, srch, NoCall, 0, Absent),
                search_route(app, service, query, session_id, user_id, limit, init, srch))

SessionMemoriesRoute ==
    /\ pc = "idle"
    /\ app.started
    /\ \E session_id \in Sessions, user_id \in UserArgs, limit \in SessionLimits,
          init \in InitChoices, get_all \in Behaviours(Responses(GetAllElems)) :
          Serve(Request("/get-session-memories", <<>>, session_id, user_id, Absent, limit),
                Lib(init, NoCall, NoCall, get_all, 0, Absent),
                session_memories_route(service, session_id, user_id, limit, init, get_all))

UserMemoriesRoute ==
    /\ pc = "idle"
    /\ app.started
    /\ \E user_id \in UserArgs \ {NoUser}, limit \in UserLimits, init \in InitChoices,
          get_all \in Behaviours(Responses(GetAllElems)) :
          Serve(Request("/get-all-user-memories", <<>>, Absent, user_id, Absent, limit),
                Lib(init, NoCall, NoCall, get_all, 0, Absent),
                user_memories_route(service, user_id, limit, init, get_all))

DeleteRoute ==
    /\ pc = "idle"
    /\ app.started
    /\ \E session_id \in Sessions, user_id \in UserArgs, init \in InitChoices,
          get_all \in Behaviours(Responses(GetAllElems)), del \in DeleteFailures :
          Serve(Request("/delete-session-memories", <<>>, session_id, user_id, Absent, 0),
                Lib(init, NoCall, NoCall, get_all, del.at, del.msg),
                delete_route(app, service, session_id, user_id, init, get_all,
                             del.at, del.msg))

ContextRoute ==
    /\ pc = "idle"
    /\ app.started
    /\ \E query \in Queries, session_id \in Sessions, user_id \in UserArgs,
          max_messages \in MaxMessagesArgs, init \in InitChoices,
          srch \in Behaviours(Responses(SearchElems)) :
          Serve(Request("/get-context", <<>>, session_id, user_id, query, max_messages),
                Lib(init, NoCall, srch, NoCall, 0, Absent),
                context_route(service, query, session_id, user_id, max_messages,
                              init, srch))

HttpNext ==
    \/ Startup
    \/ Initialize
    \/ Health
    \/ AddRoute
    \/ SearchRoute
    \/ SessionMemoriesRoute
    \/ UserMemoriesRoute
    \/ DeleteRoute
    \/ ContextRoute
    \/ Return

HttpSpec == HttpInit /\ [][HttpNext]_vars

\* ------------------------------------- the library as a faithful store
\* The library keeps, per user key, the records it created with the metadata
\* they were added with, answers get_all with at most `limit` of the user's
\* records (in an order of its choosing: oldest or newest first), and
\* memory.delete removes the record of that identifier.
Orders == {"oldest", "newest"}

\* How many memories the library extracts from one add call.
BatchSizes == {1, DefaultSessionLimit}

StoredMessages == {<<[type |-> "user", content |-> "hi"]>>}

Reverse(seq) == [k \in 1..Len(seq) |-> seq[Len(seq) + 1 - k]]

IsAdd(call) == call.fn = "add"
IsGetAll(call) == call.fn = "get_all"
IsDelete(call) == call.fn = "delete"

\* memory.get_all(user_id=..., limit=...) answered from the store
StoreGetAll(st, call, order) ==
    LET held == st.records[call.user_id]
        all == IF order = "newest" THEN Reverse(held) ELSE held
        n == IF call.limit < Len(all) THEN call.limit ELSE Len(all)
    IN  Resp("dict", "results", FALSE, SubSeq(all, 1, n))

\* What the store answers to the get_all call among `issued`.
StoreAnswer(st, issued, order) ==
    LET gets == SelectSeq(issued, IsGetAll)
    IN  IF gets = <<>> THEN NoCall ELSE Returns(StoreGetAll(st, gets[1], order))

\* The records memory.add(messages, user_id=..., metadata=...) creates
NewRecords(st, call, n) ==
    [k \in 1..n |->
        Rec("dict", ToString(st.next_id + k - 1), "t", call.metadata.session_id, Absent)]

StoreAfterAdd(st, issued, n) ==
    LET adds == SelectSeq(issued, IsAdd)
    IN  IF adds = <<>> THEN st
        ELSE [next_id |-> st.next_id + n,
              adds |-> st.adds + 1,
              records |-> [st.records EXCEPT
                             ![adds[1].user_id] = @ \o NewRecords(st, adds[1], n)]]

\* memory.delete(memory_id=...) for every delete call among `issued`
StoreAfterDeletes(st, issued) ==
    LET gone == {issued[k].memory_id : k \in {j \in 1..Len(issued) : IsDelete(issued[j])}}
        Stays(r) == r.id \notin gone
    IN  [st EXCEPT !.records = [key \in UserKeys |-> SelectSeq(st.records[key], Stays)]]

StoreFinish(req, l, ran, st) ==
    /\ service' = ran.svc
    /\ pc' = "returned"
    /\ request' = req
    /\ lib' = l
    /\ calls' = ran.calls
    /\ outcome' = ran.outcome
    /\ store' = st
    /\ UNCHANGED <<response, app, env, config>>

StoreAdd ==
    /\ pc = "idle"
    /\ store.adds < MaxAdds
    /\ \E messages \in StoredMessages, session_id \in Sessions, user_id \in UserArgs,
          init \in InitChoices, n \in BatchSizes :
          LET asked == add_messages(service, messages, session_id, user_id, init, NoCall)
              adds == SelectSeq(asked.calls, IsAdd)
              new == IF adds = <<>> THEN <<>> ELSE NewRecords(store, adds[1], n)
              add == Returns(Resp("dict", "results", FALSE, new))
              ran == add_messages(service, messages, session_id, user_id, init, add)
          IN  StoreFinish(Request("add_messages", messages, session_id, user_id, Absent, 0),
                          Lib(init, add, NoCall, NoCall, 0, Absent),
                          ran, StoreAfterAdd(store, ran.calls, n))

StoreGetSessionMemories ==
    /\ pc = "idle"
    /\ \E session_id \in Sessions, user_id \in UserArgs, limit \in SessionLimits,
          init \in InitChoices, order \in Orders :
          LET asked == get_session_memories(service, session_id, user_id, limit, init, NoCall)
              get_all == StoreAnswer(store, asked.calls, order)
              ran == get_session_memories(service, session_id, user_id, limit, init, get_all)
          IN  StoreFinish(Request("get_session_memories", <<>>, session_id, user_id,
                                  Absent, limit),
                          Lib(init, NoCall, NoCall, get_all, 0, Absent),
                          ran, store)

StoreDeleteSessionMemories ==
    /\ pc = "idle"
    /\ \E session_id \in Sessions, user_id \in UserArgs, init \in InitChoices,
          order \in Orders :
          LET asked == delete_session_memories(service, session_id, user_id, init,
                                               NoCall, 0, Absent)
              get_all == StoreAnswer(store, asked.calls, order)
              ran == delete_session_memories(service, session_id, user_id, init,
                                             get_all, 0, Absent)
          IN  StoreFinish(Request("delete_session_memories", <<>>, session_id, user_id,
                                  Absent, 0),
                          Lib(init, NoCall, NoCall, get_all, 0, Absent),
                          ran, StoreAfterDeletes(store, ran.calls))

StoreNext ==
    \/ StoreAdd
    \/ StoreGetSessionMemories
    \/ StoreDeleteSessionMemories
    \/ Return

StoreSpec == Init /\ [][StoreNext]_vars

\* ---------------------------------------- configuration resolution alone
\* The process starts under any environment; config.py is then imported
\* and, if that succeeded, the bundle is built as initialize() does.
ConfigInit ==
    /\ service = NewService
    /\ pc = "idle"
    /\ request = NoRequest
    /\ lib = NoLib
    /\ calls = <<>>
    /\ outcome = NoOutcome
    /\ response = NoResponse
    /\ app = NotStarted
    /\ env \in Environments
    /\ config = NotLoaded
    /\ store = NoStore

\* config = Config()
LoadConfig ==
    /\ ~config.loaded
    /\ config' = Config(env)
    /\ UNCHANGED <<service, pc, request, lib, calls, outcome, response, app, env, store>>

\* config.get_mem0_config()
BuildMem0Config ==
    /\ config.loaded
    /\ config.ok
    /\ config.bundle = {}
    /\ config' = [config EXCEPT !.bundle = GetMem0Config(config)]
    /\ UNCHANGED <<service, pc, request, lib, calls, outcome, response, app, env, store>>

ConfigNext ==
    \/ LoadConfig
    \/ BuildMem0Config

ConfigSpec == ConfigInit /\ [][ConfigNext]_vars

\* ================================================================ claims
DataOps ==
    {"add_messages", "search", "get_session_memories", "get_all_user_memories",
     "delete_session_memories", "get_context_for_query"}

DataFns == {"add", "search", "get_all", "delete"}

CallsTo(fn) == SelectSeq(calls, LAMBDA c : c.fn = fn)

\* The messages of the library data calls that raised during the last method.
RaisedMsgs ==
    {m \in ErrMsgs :
        \/ lib.add.raises /\ lib.add.msg = m /\ Len(CallsTo("add")) > 0
        \/ lib.search.raises /\ lib.search.msg = m /\ Len(CallsTo("search")) > 0
        \/ lib.get_all.raises /\ lib.get_all.msg = m /\ Len(CallsTo("get_all")) > 0
        \/ lib.delete_at >= 1 /\ Len(CallsTo("delete")) = lib.delete_at
              /\ lib.delete_msg = m}

FailureOutcomeWith(msgs) ==
    /\ ~outcome.raised
    /\ outcome.type = "dict"
    /\ {"success", "error"} \subseteq outcome.keys
    /\ outcome.success = FALSE
    /\ outcome.error \in msgs

\* C1: on a ready service, whenever a library call made by one of the six
\* operations raises, the operation does not raise and returns an outcome
\* with success = false carrying the error message.
C1_EveryOperationReportsFailure ==
    (pc = "returned" /\ request.ready /\ request.op \in DataOps /\ RaisedMsgs # {})
        => FailureOutcomeWith(RaisedMsgs)

\* C2: on a ready service, when memory.add raises with message m,
\* add_messages returns exactly {success: false, error: m, results: []} and
\* does not raise; likewise search when memory.search raises.
C2_AddAndSearchFailureOutcome ==
    (/\ pc = "returned"
     /\ request.ready
     /\ \/ request.op = "add_messages" /\ lib.add.raises
        \/ request.op = "search" /\ lib.search.raises)
        => /\ ~outcome.raised
           /\ outcome.type = "dict"
           /\ outcome.keys = {"success", "error", "results"}
           /\ outcome.success = FALSE
           /\ outcome.error = (IF request.op = "add_messages"
                               THEN lib.add.msg ELSE lib.search.msg)
           /\ outcome.results = <<>>

\* add_messages([], ...) on a ready service whose memory.add raised.
C2_Witness ==
    /\ pc = "returned"
    /\ request.ready
    /\ request.op = "add_messages"
    /\ request.messages = <<>>
    /\ lib.add.raises
    /\ Len(CallsTo("add")) = 1

\* C3: an operation invoked on a service that is not initialized attempts
\* Memory.from_config before any library data call; if the attempt fails the
\* exception reaches the caller, no data call is made and the service stays
\* uninitialized.
C3_LazyInitializationFirst ==
    (pc = "returned" /\ request.op \in DataOps /\ ~request.ready)
        => /\ Len(calls) >= 1
           /\ calls[1].fn = "from_config"
           /\ lib.init.raises =>
                 /\ outcome.raised
                 /\ outcome.exc = lib.init.msg
                 /\ \A k \in 1..Len(calls) : calls[k].fn \notin DataFns
                 /\ ~service.initialized
                 /\ service.memory = None

\* delete_session_memories on a fresh service whose from_config raised.
C3_Witness ==
    /\ pc = "returned"
    /\ request.op = "delete_session_memories"
    /\ ~request.ready
    /\ lib.init.raises
    /\ outcome.raised

\* C4: once initialized, the flag stays true and the handle and the number
\* of constructions stay as they are whatever is called next; initialized
\* implies a handle, and the library is constructed at most once.
C4_InitializeIdempotent ==
    [][/\ service.initialized => service' = service
       /\ service'.initialized =>
             service'.memory # None /\ service'.constructed = 1
       /\ service'.constructed <= 1]_vars

\* initialize() called on a service that is already ready.
C4_Witness ==
    /\ pc = "returned"
    /\ request.op = "initialize"
    /\ request.ready
    /\ service.initialized
    /\ calls = <<>>
\* The records of a library response, as the library listed them.
ItemsOf(behaviour) == behaviour.value.items

OnlyMappings(items) == \A k \in 1..Len(items) : items[k].kind = "dict"

\* C5: get_session_memories returns exactly the records of the get_all
\* response whose metadata session identifier equals the requested one
\* (stated for responses made of mapping records, with a metadata mapping,
\* without a metadata key or with a null metadata value).
C5_SessionMemoriesAreExactlyTheMatching ==
    (/\ pc = "returned"
     /\ request.op = "get_session_memories"
     /\ ~outcome.raised
     /\ ~lib.get_all.raises
     /\ ~lib.get_all.value.null
     /\ OnlyMappings(ItemsOf(lib.get_all)))
        => outcome.results =
              SelectSeq(ItemsOf(lib.get_all),
                        LAMBDA r : r.metadata = request.session_id)

\* C6: in every outcome delete_session_memories returns, deleted_count
\* equals the number of memory.delete calls that were issued.
C6_DeletedCountIsDeleteCalls ==
    (pc = "returned" /\ request.op = "delete_session_memories" /\ ~outcome.raised)
        => /\ "deleted_count" \in outcome.keys
           /\ outcome.deleted_count = Len(CallsTo("delete"))

\* C7 as claimed: for every search response that does not raise, search
\* returns success = true and every returned record carries an identifier
\* and a textual content field.
C7_EveryRecordHasIdAndContent ==
    (/\ pc = "returned"
     /\ request.op = "search"
     /\ ~outcome.raised
     /\ ~lib.search.raises)
        => /\ outcome.success
           /\ \A k \in 1..Len(outcome.results) :
                 /\ outcome.results[k].id # Absent
                 /\ outcome.results[k].memory # Absent

\* The records search looks at: the list itself, or a mapping's 'results'.
SearchVisible(resp) ==
    IF resp.type = "list" \/ (resp.type = "dict" /\ resp.key = "results")
    THEN resp.items ELSE <<>>

WellFormed(items) == SelectSeq(items, LAMBDA r : r.kind # "other")

\* C7 as amended: for every search response that does not raise and whose
\* 'results' entry, if any, is a sequence, search returns success = true
\* with one mapping per mapping or string of the response, in library order:
\* a mapping record is returned unchanged (with an identifier and content
\* only if the library gave them), a string is wrapped into a record with an
\* identifier, the string as content and score 1.0.
C7_SearchNormalizesInOrder ==
    (/\ pc = "returned"
     /\ request.op = "search"
     /\ ~outcome.raised
     /\ ~lib.search.raises
     /\ ~lib.search.value.null)
        => LET kept == WellFormed(SearchVisible(lib.search.value))
           IN  /\ outcome.success
               /\ outcome.keys = {"success", "results"}
               /\ Len(outcome.results) = Len(kept)
               /\ \A k \in 1..Len(outcome.results) :
                     /\ outcome.results[k].kind = "dict"
                     /\ kept[k].kind = "dict" => outcome.results[k] = kept[k]
                     /\ kept[k].kind = "str" =>
                           /\ outcome.results[k].id # Absent
                           /\ outcome.results[k].memory = kept[k].memory
                           /\ outcome.results[k].score = "1.0"

\* search answered a list holding a mapping without identifier and a string.
C7_Witness ==
    /\ pc = "returned"
    /\ request.op = "search"
    /\ ~lib.search.raises
    /\ Len(outcome.results) = 2
    /\ outcome.results[1].id = Absent
    /\ \E k \in 1..Len(ItemsOf(lib.search)) : ItemsOf(lib.search)[k].kind = "str"

Remove(seq, j) == SubSeq(seq, 1, j - 1) \o SubSeq(seq, j + 1, Len(seq))

WithoutItem(behaviour, j) ==
    [behaviour EXCEPT !.value.items = Remove(@, j)]

\* results with the identifier blanked in the records that stand for a string
\* of items (the k-th result stands for the k-th well-formed item).
BlankStringIds(results, items) ==
    LET kept == WellFormed(items)
    IN  [k \in 1..Len(results) |->
            IF k <= Len(kept) /\ kept[k].kind = "str"
            THEN [results[k] EXCEPT !.id = Absent]
            ELSE results[k]]

\* C8: in search, get_all_user_memories and get_session_memories an element
\* of the response that is neither a mapping nor a string is dropped without
\* raising: the outcome is the one the response without that element gives,
\* up to the identifiers synthesized for strings.
C8_MalformedRecordIsDropped ==
    pc = "returned" =>
        /\ request.op = "search" =>
              \A j \in 1..Len(ItemsOf(lib.search)) :
                 ItemsOf(lib.search)[j].kind = "other" =>
                    LET less == WithoutItem(lib.search, j)
                        then == search(service, request.query, request.session_id,
                                       request.user_id, request.limit, lib.init,
                                       less).outcome
                    IN  /\ request.ready => ~outcome.raised
                        /\ outcome.raised = then.raised
                        /\ outcome.success = then.success
                        /\ BlankStringIds(outcome.results, SearchVisible(lib.search.value))
                              = BlankStringIds(then.results, SearchVisible(less.value))
        /\ request.op = "get_all_user_memories" =>
              \A j \in 1..Len(ItemsOf(lib.get_all)) :
                 ItemsOf(lib.get_all)[j].kind = "other" =>
                    /\ request.ready => ~outcome.raised
                    /\ outcome =
                          get_all_user_memories(service, request.user_id, request.limit,
                              lib.init, WithoutItem(lib.get_all, j)).outcome
        /\ request.op = "get_session_memories" =>
              \A j \in 1..Len(ItemsOf(lib.get_all)) :
                 ItemsOf(lib.get_all)[j].kind = "other" =>
                    /\ request.ready => ~outcome.raised
                    /\ outcome =
                          get_session_memories(service, request.session_id,
                              request.user_id, request.limit, lib.init,
                              WithoutItem(lib.get_all, j)).outcome

\* search answered a list with a malformed element ahead of a string.
C8_Witness ==
    /\ pc = "returned"
    /\ request.op = "search"
    /\ ~lib.search.raises
    /\ lib.search.value.type = "list"
    /\ Len(ItemsOf(lib.search)) = 2
    /\ ItemsOf(lib.search)[1].kind = "other"
    /\ ItemsOf(lib.search)[2].kind = "str"
    /\ Len(outcome.results) = 1
    /\ outcome.results[1].id = "1"

\* C9: add_messages issues memory.add exactly once, with one message per
\* input message in input order, role "user" for the tag "user" and
\* "assistant" for any other or missing tag, content the input content or ""
\* when absent.
C9_AddMessagesMapsRoles ==
    (pc = "returned" /\ request.op = "add_messages" /\ ~outcome.raised)
        => /\ Len(CallsTo("add")) = 1
           /\ LET sent == CallsTo("add")[1].messages
              IN  /\ Len(sent) = Len(request.messages)
                  /\ \A k \in 1..Len(sent) :
                        /\ sent[k].role =
                              (IF request.messages[k].type = "user"
                               THEN "user" ELSE "assistant")
                        /\ sent[k].content =
                              (IF request.messages[k].content = Absent
                               THEN "" ELSE request.messages[k].content)

\* add_messages with a "system" message and a message without a tag.
C9_Witness ==
    /\ pc = "returned"
    /\ request.op = "add_messages"
    /\ Len(request.messages) = 2
    /\ request.messages[1].type = "system"
    /\ request.messages[2].type = Absent
    /\ request.messages[2].content = Absent
    /\ Len(CallsTo("add")) = 1

\* C10: the user key passed to the library is the string form of user_id
\* whenever a user_id is supplied, 0 included, and "default" only when none
\* is; add_messages' metadata user_id is that same key.
C10_UserKeyIsStringOfUserId ==
    (/\ pc = "returned"
     /\ request.op \in {"add_messages", "search", "get_session_memories",
                        "get_all_user_memories"})
        => LET key == IF request.user_id.given
                      THEN ToString(request.user_id.v) ELSE "default"
           IN  \A k \in 1..Len(calls) :
                  /\ calls[k].fn \in {"add", "search", "get_all"} =>
                        calls[k].user_id = key
                  /\ calls[k].fn = "add" =>
                        calls[k].metadata =
                           [session_id |-> request.session_id, user_id |-> key]
\* The texts get_context_for_query wraps: the content of every mapping or
\* string that search returns, in order, unless it is missing or empty.
RECURSIVE TextsFrom(_, _)
TextsFrom(items, k) ==
    IF k > Len(items) THEN <<>>
    ELSE (IF items[k].memory \in {Absent, ""} THEN <<>> ELSE <<items[k].memory>>)
         \o TextsFrom(items, k + 1)

\* What search hands back for the library's behaviour: nothing when the
\* call raised or the 'results' entry is null.
SearchReturned(behaviour) ==
    IF behaviour.raises \/ behaviour.value.null THEN <<>>
    ELSE WellFormed(SearchVisible(behaviour.value))

\* C14: get_context_for_query issues exactly one memory.search, under the
\* user key, with limit max_messages and no session filter whatever the
\* session_id; it returns, in search-result order, one entry
\* {role: "system", content: "[Relevant Context: t]"} per returned record
\* with non-empty text t and none for records with empty or missing text.
C14_ContextIsCrossSessionSearch ==
    (pc = "returned" /\ request.op = "get_context_for_query" /\ ~outcome.raised)
        => /\ Len(CallsTo("search")) = 1
           /\ \A k \in 1..Len(calls) : calls[k].fn \in {"from_config", "search"}
           /\ LET c == CallsTo("search")[1]
                  texts == TextsFrom(SearchReturned(lib.search), 1)
              IN  /\ c.user_id = UserKey(request.user_id)
                  /\ c.limit = request.limit
                  /\ c.filters = Absent
                  /\ c.query = request.query
                  /\ outcome.type = "list"
                  /\ Len(outcome.context) = Len(texts)
                  /\ \A k \in 1..Len(texts) :
                        /\ outcome.context[k].role = "system"
                        /\ outcome.context[k].content =
                              "[Relevant Context: " \o texts[k] \o "]"

\* get_context_for_query for session s1 over a record with empty text
\* followed by a record with text.
C14_Witness ==
    /\ pc = "returned"
    /\ request.op = "get_context_for_query"
    /\ request.session_id = "s1"
    /\ ~lib.search.raises
    /\ Len(ItemsOf(lib.search)) = 2
    /\ ItemsOf(lib.search)[1].kind = "dict"
    /\ ItemsOf(lib.search)[1].memory = ""
    /\ ItemsOf(lib.search)[2].memory = "t"
    /\ Len(outcome.context) = 1
    /\ outcome.context[1].content = "[Relevant Context: t]"
\* The provider selector names a supported provider, whatever its case.
SelectorNames(provider) ==
    \/ provider = "openai" /\ env.MEM0_MODELS \in {"openai", "OpenAI"}
    \/ provider = "azure" /\ env.MEM0_MODELS \in {"azure", "AZURE"}

CredentialGiven ==
    \/ SelectorNames("openai") /\ env.OPENAI_API_KEY \notin {Absent, ""}
    \/ SelectorNames("azure") /\ env.AZURE_OPENAI_API_KEY \notin {Absent, ""}

GraphFlagSet == env.MEM0_GRAPH_ENABLED \in {"true", "True"}

\* C15: configuration resolution fails exactly when the provider selector is
\* absent or unsupported (compared without case) or the chosen provider's
\* credential is absent or empty; a constructed Configuration has a supported
\* provider and a non-empty credential; a graph flag set without the graph
\* dependency is downgraded without failing, and the bundle holds a
\* graph-store section exactly when the resulting flag is enabled.
C15_ConfigurationValidated ==
    config.loaded =>
        /\ config.ok <=> CredentialGiven
        /\ ~config.ok => config.error # Absent
        /\ config.ok =>
              /\ config.provider \in {"openai", "azure"}
              /\ SelectorNames(config.provider)
              /\ config.api_key \notin {Absent, None, ""}
              /\ config.graph_enabled <=> (GraphFlagSet /\ env.neo4j_installed)
              /\ config.warned <=> (GraphFlagSet /\ ~env.neo4j_installed)
              /\ config.bundle # {} =>
                    ("graph_store" \in config.bundle <=> config.graph_enabled)

\* The graph flag is set as "True", the dependency is missing: the
\* configuration is constructed, downgraded, and its bundle has no graph store.
C15_Witness ==
    /\ config.loaded
    /\ config.ok
    /\ env.MEM0_MODELS = "AZURE"
    /\ env.MEM0_GRAPH_ENABLED = "True"
    /\ ~env.neo4j_installed
    /\ ~config.graph_enabled
    /\ config.bundle # {}
    /\ "graph_store" \notin config.bundle

\* ------------------------------------------------------------ HTTP claims
RouteOps ==
    {"/add", "/search", "/get-session-memories", "/get-all-user-memories",
     "/delete-session-memories", "/get-context"}

\* C11: a route reached while the service's initialized flag is false answers
\* 503 "Service not initialized", issues no call to the memory service or the
\* library, and leaves the service uninitialized.
C11_NotReadyAnswers503 ==
    (request.op \in RouteOps /\ ~request.ready) =>
        /\ response = Unavailable
        /\ ~response.delegated
        /\ calls = <<>>
        /\ outcome = NoOutcome
        /\ ~service.initialized
        /\ service.constructed = 0

C11_Witness ==
    /\ request.op = "/get-all-user-memories"
    /\ app.started
    /\ ~request.ready
    /\ response.status = 503

FailureMappedRoutes == {"/add", "/search", "/delete-session-memories"}

\* C12: on a ready service, when /add, /search or /delete-session-memories
\* gets an outcome with success = false and error m from the memory service,
\* the response is 500 with detail exactly m.
C12_FailureDetailIsErrorMessage ==
    (/\ request.op \in FailureMappedRoutes
     /\ request.ready
     /\ ~outcome.raised
     /\ outcome.type = "dict"
     /\ ~outcome.success) =>
        /\ response.status = 500
        /\ response.detail = outcome.error

\* C13: a failed initialization in the startup hook does not leave the hook
\* as an exception and leaves the service not ready; /health can be served
\* whenever the application is up and idle, reports initialized equal to the
\* flag and "healthy" exactly when the flag is true, "initializing" otherwise;
\* and every route reached while the flag is still false answers 503.
C13_StartupFailureKeepsServing ==
    /\ request.op = "startup" =>
          /\ ~outcome.raised
          /\ app.started
          /\ lib.init.raises => ~service.initialized
    /\ (app.started /\ pc = "idle") => ENABLED Health
    /\ request.op = "/health" =>
          /\ response.status = 200
          /\ response.initialized = service.initialized
          /\ response.health = (IF service.initialized THEN "healthy" ELSE "initializing")
    /\ (request.op \in RouteOps /\ app.started /\ ~service.initialized) =>
          response.status = 503

C13_Witness ==
    /\ request.op = "/health"
    /\ app.started
    /\ ~service.initialized
    /\ response.status = 200
    /\ response.health = "initializing"



\* ------------------------------------------------ deletion against a store
CountOf(records, session_id) ==
    Cardinality({i \in 1..Len(records) : records[i].metadata = session_id})

Remaining(session_id, user_id) ==
    CountOf(store.records[UserKey(user_id)], session_id)

DeleteSucceeded ==
    /\ request.op = "delete_session_memories"
    /\ pc = "returned"
    /\ ~outcome.raised
    /\ outcome.type = "dict"
    /\ outcome.success

\* C16: once delete_session_memories(s, u) has returned success = true
\* against a store that keeps its records and honours get_all's limit, no
\* record of user u with session identifier s remains in the store.
C16_SuccessfulDeleteLeavesNone ==
    DeleteSucceeded => Remaining(request.session_id, request.user_id) = 0


====
